---- MODULE Spec2Model ----
(***************************************************************************)
(* Model of core/lib/zksync_core/src/api_server/tx_sender/proxy.rs:        *)
(* the transaction cache (TxCache), its background nonce sweeper           *)
(* (TxCache::run_updates) and the proxy facade (TxProxy).                  *)
(***************************************************************************)
EXTENDS FiniteSets, Integers, Sequences, TLC

VARIABLES
    tx_cache,           \* TxCacheInner.tx_cache: HashMap<H256, L2Tx>
    nonces_by_account,  \* TxCacheInner.nonces_by_account: HashMap<Address, BTreeSet<Nonce>>
    lock,               \* the RwLock around TxCacheInner
    handlers,           \* each request handler's call in progress
    sweeper,            \* position and locals of run_updates
    stop                \* the value of the stop_receiver watch channel

vars == <<tx_cache, nonces_by_account, lock, handlers, sweeper, stop>>

----------------------------------------------------------------------------
(* Bounds and universes *)

\* Largest nonce request handlers use in the concurrent specification.
MaxNonce == 1
\* Largest value of the nonce type (u32 in the code); additions wrap above it.
NonceMax == 14
\* Largest pending set drawn for the specifications of the pure functions.
MaxSetSize == 4

None == "None"
Unit == "()"
\* How a call ends: with a value, or with a panic.
Returned(v) == <<"ret", v>>
Panicked == <<"panic">>
\* Option<T>
NoneOpt == <<>>
Some(v) == <<v>>

Accounts == {"A", "B"}
Hashes == {"x", "y"}
\* The identities used where calls and the sweeper interleave freely.
OneHash == {"x"}
Handlers == {"h1", "h2"}
\* The handler that calls where one caller at a time is modelled.
OneCaller == {"h1"}
Sweeper == "sweeper"

NonceType == 0..NonceMax
Nonces == 0..MaxNonce
\* Stored nonces the store may report in the concurrent specification.
StoredNonces == 0..(MaxNonce + 1)

\* L2Tx, reduced to what the cache reads: hash(), initiator_account(), nonce().
L2Tx(h, a, n) == [hash |-> h, initiator_account |-> a, nonce |-> n]
TxUniverse(H) == {L2Tx(h, a, n) : h \in H, a \in Accounts, n \in Nonces}

EmptyMap == <<>>

----------------------------------------------------------------------------
(* Nonce arithmetic: Nonce(u32) *)

NonceOverflows(n) == n = NonceMax
NonceAdd1(n) == (n + 1) % (NonceMax + 1)

SetMin(S) == CHOOSE m \in S : \A k \in S : m <= k

----------------------------------------------------------------------------
(* The RwLock: FIFO-fair, many readers or one writer *)

FreeLock == [writer |-> None, readers |-> {}, waiters |-> <<>>]

Compatible(l, mode) ==
    IF mode = "write"
    THEN l.writer = None /\ l.readers = {}
    ELSE l.writer = None

Grant(l, p, mode) ==
    IF mode = "write"
    THEN [l EXCEPT !.writer = p]
    ELSE [l EXCEPT !.readers = @ \cup {p}]

\* inner.read().await / inner.write().await: taken at once when the lock is
\* available and nobody is queued, queued otherwise.
Acquire(l, p, mode) ==
    IF l.waiters = <<>> /\ Compatible(l, mode)
    THEN Grant(l, p, mode)
    ELSE [l EXCEPT !.waiters = Append(@, <<p, mode>>)]

RECURSIVE WakeWaiters(_)
WakeWaiters(l) ==
    IF l.waiters # <<>> /\ Compatible(l, Head(l.waiters)[2])
    THEN WakeWaiters(Grant([l EXCEPT !.waiters = Tail(@)],
                           Head(l.waiters)[1], Head(l.waiters)[2]))
    ELSE l

\* Mutant of Release: the guard is dropped and the queued tasks are not
\* woken.
ReleaseWithoutWake(l, p) ==
    [l EXCEPT !.writer = IF @ = p THEN None ELSE @,
              !.readers = @ \ {p}]

\* Dropping a guard: the lock passes to the queued tasks in order.
Release(l, p) ==
    WakeWaiters([l EXCEPT !.writer = IF @ = p THEN None ELSE @,
                          !.readers = @ \ {p}])

Holds(l, p) == l.writer = p \/ p \in l.readers

----------------------------------------------------------------------------
(* TxCacheInner operations, as done under the lock *)

\* HashMap::insert / entry().or_default()
MapPut(m, k, v) == [x \in DOMAIN m \cup {k} |-> IF x = k THEN v ELSE m[x]]
\* HashMap::remove
MapRemove(m, k) == [x \in DOMAIN m \ {k} |-> m[x]]

\* Mutant of PushNonces: a nonce is recorded only for an account that is
\* tracked already.
PushNoncesOnlyTracked(nba, tx) ==
    IF tx.initiator_account \in DOMAIN nba
    THEN MapPut(nba, tx.initiator_account,
                nba[tx.initiator_account] \cup {tx.nonce})
    ELSE nba

\* push: nonces_by_account.entry(account).or_default().insert(nonce)
PushNonces(nba, tx) ==
    MapPut(nba, tx.initiator_account,
           (IF tx.initiator_account \in DOMAIN nba
            THEN nba[tx.initiator_account] ELSE {}) \cup {tx.nonce})

\* Mutant of PushTx: an identity already cached keeps its old payload.
PushTxIfAbsent(cache, tx) ==
    IF tx.hash \in DOMAIN cache THEN cache ELSE MapPut(cache, tx.hash, tx)

\* Mutant of PushTx: a repeated push of a cached transaction evicts it.
PushTxToggling(cache, tx) ==
    IF tx.hash \in DOMAIN cache /\ cache[tx.hash] = tx
    THEN MapRemove(cache, tx.hash)
    ELSE MapPut(cache, tx.hash, tx)

\* push: tx_cache.insert(tx.hash(), tx)
PushTx(cache, tx) == MapPut(cache, tx.hash, tx)

\* get_tx: tx_cache.get(&tx_hash).cloned()
GetTxIn(cache, tx_hash) ==
    IF tx_hash \in DOMAIN cache THEN Some(cache[tx_hash]) ELSE NoneOpt

\* get_nonces_for_account: a clone of the set, or an empty set
GetNoncesIn(nba, account_address) ==
    IF account_address \in DOMAIN nba THEN nba[account_address] ELSE {}

\* remove_tx: tx_cache.remove(&tx_hash)
RemoveTxIn(cache, tx_hash) == MapRemove(cache, tx_hash)

\* Mutant of SplitOff: the key itself goes with the discarded part.
SplitOffExclusive(set, key) == {n \in set : n > key}

\* BTreeSet::split_off(&key): everything at or after key
SplitOff(set, key) == {n \in set : n >= key}

\* Mutant of StoredNonce: an address the answer lacks counts as nonce 1.
StoredNonceDefaultOne(nonces_for_accounts, address) ==
    IF address \in DOMAIN nonces_for_accounts
    THEN nonces_for_accounts[address] ELSE 1

\* nonces_for_accounts.get(address).copied().unwrap_or(Nonce(0))
StoredNonce(nonces_for_accounts, address) ==
    IF address \in DOMAIN nonces_for_accounts
    THEN nonces_for_accounts[address] ELSE 0

\* Mutant of RetainedNonces: the half split_off leaves behind is kept.
RetainedNoncesLeftHalf(account_nonces, nonces_for_accounts, address) ==
    account_nonces \
        SplitOff(account_nonces, StoredNonce(nonces_for_accounts, address))

\* Mutant of RetainedNonces: a set that would be emptied is left as it is.
RetainedNoncesNeverEmptied(account_nonces, nonces_for_accounts, address) ==
    IF SplitOff(account_nonces, StoredNonce(nonces_for_accounts, address)) = {}
    THEN account_nonces
    ELSE SplitOff(account_nonces, StoredNonce(nonces_for_accounts, address))

\* The closure given to retain, for one entry: the nonces kept.
RetainedNonces(account_nonces, nonces_for_accounts, address) ==
    SplitOff(account_nonces, StoredNonce(nonces_for_accounts, address))

\* Mutant of Retain: the closure keeps every entry, emptied or not.
RetainKeepingEmpty(nba, nonces_for_accounts) ==
    [a \in DOMAIN nba |-> RetainedNonces(nba[a], nonces_for_accounts, a)]

\* Mutant of Retain: the stored nonce is put into every kept set.
RetainAddingStored(nba, nonces_for_accounts) ==
    [a \in {a \in DOMAIN nba :
              RetainedNonces(nba[a], nonces_for_accounts, a) # {}}
       |-> RetainedNonces(nba[a], nonces_for_accounts, a)
             \cup {StoredNonce(nonces_for_accounts, a)}]

\* nonces_by_account.retain(..): entries whose kept set is empty are dropped
Retain(nba, nonces_for_accounts) ==
    [a \in {a \in DOMAIN nba :
              RetainedNonces(nba[a], nonces_for_accounts, a) # {}}
       |-> RetainedNonces(nba[a], nonces_for_accounts, a)]

----------------------------------------------------------------------------
(* TxProxy::next_nonce_by_initiator_account *)

\* The for loop over nonces.range(start..), ascending; overflow_checks is the
\* build's setting: with it an overflowing += panics, without it it wraps.
RECURSIVE ScanNonces(_, _, _)
ScanNonces(remaining, pending_nonce, overflow_checks) ==
    IF remaining = {} THEN Returned(pending_nonce)
    ELSE LET nonce == SetMin(remaining) IN
         IF nonce = pending_nonce
         THEN IF NonceOverflows(pending_nonce) /\ overflow_checks
              THEN Panicked
              ELSE ScanNonces(remaining \ {nonce}, NonceAdd1(pending_nonce),
                              overflow_checks)
         ELSE Returned(pending_nonce)

\* nonces.range(pending_nonce + 1..), then the loop
NextNonceByInitiatorAccount(nonces, current_nonce, overflow_checks) ==
    IF NonceOverflows(current_nonce) /\ overflow_checks
    THEN Panicked
    ELSE ScanNonces({n \in nonces : n >= NonceAdd1(current_nonce)},
                    current_nonce, overflow_checks)

----------------------------------------------------------------------------
(* Request handlers *)

Idle == [pc |-> "idle", op |-> None, arg |-> None, ret |-> <<>>]
Awaiting(op, arg) == [pc |-> "await_lock", op |-> op, arg |-> arg, ret |-> <<>>]
Done(op, arg, ret) == [pc |-> "done", op |-> op, arg |-> arg, ret |-> ret]

LockMode(op) == IF op \in {"push", "remove_tx"} THEN "write" ELSE "read"

\* A handler enters a cache operation and asks for the lock.
Call(p, op, arg) ==
    /\ handlers[p].pc = "idle"
    /\ handlers' = [handlers EXCEPT ![p] = Awaiting(op, arg)]
    /\ lock' = Acquire(lock, p, LockMode(op))
    /\ UNCHANGED <<tx_cache, nonces_by_account, sweeper, stop>>

\* A caller whose previous call has returned makes its next call.
CallNext(p, op, arg) ==
    /\ handlers[p].pc = "done"
    /\ handlers' = [handlers EXCEPT ![p] = Awaiting(op, arg)]
    /\ lock' = Acquire(lock, p, LockMode(op))
    /\ UNCHANGED <<tx_cache, nonces_by_account, sweeper, stop>>

Running(p, op) ==
    /\ handlers[p].pc = "await_lock"
    /\ handlers[p].op = op
    /\ Holds(lock, p)

\* TxCache::push (TxProxy::save_tx)
Push(p) ==
    /\ Running(p, "push")
    /\ nonces_by_account' = PushNonces(nonces_by_account, handlers[p].arg)
    /\ tx_cache' = PushTx(tx_cache, handlers[p].arg)
    /\ lock' = Release(lock, p)
    /\ handlers' = [handlers EXCEPT ![p] = Done("push", @.arg, Returned(Unit))]
    /\ UNCHANGED <<sweeper, stop>>

\* TxCache::get_tx (TxProxy::find_tx)
GetTx(p) ==
    /\ Running(p, "get_tx")
    /\ lock' = Release(lock, p)
    /\ handlers' = [handlers EXCEPT
         ![p] = Done("get_tx", @.arg, Returned(GetTxIn(tx_cache, @.arg)))]
    /\ UNCHANGED <<tx_cache, nonces_by_account, sweeper, stop>>

\* TxCache::get_nonces_for_account (TxProxy::get_nonces_by_account)
GetNoncesForAccount(p) ==
    /\ Running(p, "get_nonces_for_account")
    /\ lock' = Release(lock, p)
    /\ handlers' = [handlers EXCEPT
         ![p] = Done("get_nonces_for_account", @.arg,
                     Returned(GetNoncesIn(nonces_by_account, @.arg)))]
    /\ UNCHANGED <<tx_cache, nonces_by_account, sweeper, stop>>

\* Mutant of RemoveTx: the removed transaction's nonce is dropped as well.
RemoveTxAndNonce(p) ==
    /\ Running(p, "remove_tx")
    /\ tx_cache' = RemoveTxIn(tx_cache, handlers[p].arg)
    /\ nonces_by_account' =
         IF handlers[p].arg \in DOMAIN tx_cache
         THEN LET tx == tx_cache[handlers[p].arg]
                  a == tx.initiator_account
              IN IF a \in DOMAIN nonces_by_account
                 THEN IF nonces_by_account[a] \ {tx.nonce} = {}
                      THEN MapRemove(nonces_by_account, a)
                      ELSE MapPut(nonces_by_account, a,
                                  nonces_by_account[a] \ {tx.nonce})
                 ELSE nonces_by_account
         ELSE nonces_by_account
    /\ lock' = Release(lock, p)
    /\ handlers' = [handlers EXCEPT ![p] = Done("remove_tx", @.arg, Returned(Unit))]
    /\ UNCHANGED <<sweeper, stop>>

\* TxCache::remove_tx (TxProxy::forget_tx)
RemoveTx(p) ==
    /\ Running(p, "remove_tx")
    /\ tx_cache' = RemoveTxIn(tx_cache, handlers[p].arg)
    /\ lock' = Release(lock, p)
    /\ handlers' = [handlers EXCEPT ![p] = Done("remove_tx", @.arg, Returned(Unit))]
    /\ UNCHANGED <<nonces_by_account, sweeper, stop>>

\* TxProxy::next_nonce_by_initiator_account; arg = <<account, current_nonce>>.
\* The set is cloned under the read lock and scanned after it is released.
NextNonce(p) ==
    /\ Running(p, "next_nonce")
    /\ lock' = Release(lock, p)
    /\ \E overflow_checks \in BOOLEAN :
         handlers' = [handlers EXCEPT
            ![p] = Done("next_nonce", @.arg,
                        NextNonceByInitiatorAccount(
                            GetNoncesIn(nonces_by_account, @.arg[1]),
                            @.arg[2], overflow_checks))]
    /\ UNCHANGED <<tx_cache, nonces_by_account, sweeper, stop>>

\* What submit_tx returns: input_data().expect(..) panics without the raw
\* bytes; otherwise the main node's answer, the hash or an error.
SubmitResult(tx, has_input, sent) ==
    IF ~has_input THEN Panicked
    ELSE IF sent THEN Returned(<<"Ok", tx.hash>>)
    ELSE Returned(<<"Err">>)

\* Mutant of SubmitTx: the transaction is recorded before it is forwarded.
SubmitTxRecording(p, tx, has_input, sent) ==
    /\ handlers[p].pc = "idle"
    /\ lock = FreeLock
    /\ nonces_by_account' = PushNonces(nonces_by_account, tx)
    /\ tx_cache' = PushTx(tx_cache, tx)
    /\ handlers' = [handlers EXCEPT
         ![p] = Done("submit_tx", tx, SubmitResult(tx, has_input, sent))]
    /\ UNCHANGED <<lock, sweeper, stop>>

\* TxProxy::submit_tx: forwards the raw transaction; takes no lock.
SubmitTx(p, tx, has_input, sent) ==
    /\ handlers[p].pc = "idle"
    /\ handlers' = [handlers EXCEPT
         ![p] = Done("submit_tx", tx, SubmitResult(tx, has_input, sent))]
    /\ UNCHANGED <<tx_cache, nonces_by_account, lock, sweeper, stop>>

\* The handler's call returns to its caller.
Return(p) ==
    /\ handlers[p].pc = "done"
    /\ handlers' = [handlers EXCEPT ![p] = Idle]
    /\ UNCHANGED <<tx_cache, nonces_by_account, lock, sweeper, stop>>

----------------------------------------------------------------------------
(* TxCache::run_updates *)

SweeperAt(pc, addresses, nonces_for_accounts, storage, result) ==
    [pc |-> pc, addresses |-> addresses,
     nonces_for_accounts |-> nonces_for_accounts,
     storage |-> storage, result |-> result]

SweeperStart == SweeperAt("loop", {}, EmptyMap, FALSE, None)
\* run_updates has returned: its locals are gone, the connection dropped.
SweeperReturned(result) == SweeperAt("returned", {}, EmptyMap, FALSE, result)

\* Mutant of CheckStop: the stop signal is not looked at.
CheckStopUnseen ==
    /\ sweeper.pc = "loop"
    /\ sweeper' = [sweeper EXCEPT !.pc = "snapshot"]
    /\ lock' = Acquire(lock, Sweeper, "read")
    /\ UNCHANGED <<tx_cache, nonces_by_account, handlers, stop>>

\* Top of the loop: return Ok(()) on stop, else inner.read().await
CheckStop ==
    /\ sweeper.pc = "loop"
    /\ IF stop
       THEN /\ sweeper' = SweeperReturned("Ok")
            /\ lock' = lock
       ELSE /\ sweeper' = [sweeper EXCEPT !.pc = "snapshot"]
            /\ lock' = Acquire(lock, Sweeper, "read")
    /\ UNCHANGED <<tx_cache, nonces_by_account, handlers, stop>>

\* Mutant of Snapshot: the read guard is kept after the snapshot.
SnapshotKeepingGuard ==
    /\ sweeper.pc = "snapshot"
    /\ Holds(lock, Sweeper)
    /\ sweeper' = [sweeper EXCEPT !.pc = "access_storage",
                                  !.addresses = DOMAIN nonces_by_account]
    /\ UNCHANGED <<tx_cache, nonces_by_account, lock, handlers, stop>>

\* addresses = nonces_by_account.keys().copied().collect(); guard dropped
Snapshot ==
    /\ sweeper.pc = "snapshot"
    /\ Holds(lock, Sweeper)
    /\ sweeper' = [sweeper EXCEPT !.pc = "access_storage",
                                  !.addresses = DOMAIN nonces_by_account]
    /\ lock' = Release(lock, Sweeper)
    /\ UNCHANGED <<tx_cache, nonces_by_account, handlers, stop>>

\* pool.access_storage_tagged("api").await? : a connection, or the error
\* is returned
AccessStorage(ok) ==
    /\ sweeper.pc = "access_storage"
    /\ sweeper' = IF ok
                  THEN [sweeper EXCEPT !.pc = "get_nonces", !.storage = TRUE]
                  ELSE SweeperReturned("Err")
    /\ UNCHANGED <<tx_cache, nonces_by_account, lock, handlers, stop>>

\* What get_nonces_for_addresses may answer: a stored nonce for some of the
\* addresses asked for.
QueryResults(addresses, stored) ==
    UNION {[D -> stored] : D \in SUBSET addresses}

\* Mutant of GetNoncesForAddresses: the stop signal is looked at again when
\* the query answers, and the loop returns without the trim.
GetNoncesUnlessStopped(result) ==
    /\ sweeper.pc = "get_nonces"
    /\ IF stop
       THEN /\ sweeper' = SweeperReturned("Ok")
            /\ lock' = lock
       ELSE /\ sweeper' = [sweeper EXCEPT !.pc = "retain",
                                          !.nonces_for_accounts = result,
                                          !.storage = FALSE]
            /\ lock' = Acquire(lock, Sweeper, "write")
    /\ UNCHANGED <<tx_cache, nonces_by_account, handlers, stop>>

\* get_nonces_for_addresses(&addresses).await? succeeds; drop(storage);
\* then inner.write().await
GetNoncesForAddresses(result) ==
    /\ sweeper.pc = "get_nonces"
    /\ sweeper' = [sweeper EXCEPT !.pc = "retain",
                                  !.nonces_for_accounts = result,
                                  !.storage = FALSE]
    /\ lock' = Acquire(lock, Sweeper, "write")
    /\ UNCHANGED <<tx_cache, nonces_by_account, handlers, stop>>

\* Mutant of GetNoncesFails: the error is swallowed and the pass goes on
\* with an empty answer.
GetNoncesFailureIgnored ==
    /\ sweeper.pc = "get_nonces"
    /\ sweeper' = [sweeper EXCEPT !.pc = "retain",
                                  !.nonces_for_accounts = EmptyMap,
                                  !.storage = FALSE]
    /\ lock' = Acquire(lock, Sweeper, "write")
    /\ UNCHANGED <<tx_cache, nonces_by_account, handlers, stop>>

\* get_nonces_for_addresses(&addresses).await? fails: the error is returned
GetNoncesFails ==
    /\ sweeper.pc = "get_nonces"
    /\ sweeper' = SweeperReturned("Err")
    /\ UNCHANGED <<tx_cache, nonces_by_account, lock, handlers, stop>>

\* Mutant of RetainStep: the trim also evicts the cached transactions whose
\* nonce it has just dropped.
RetainStepEvicting ==
    /\ sweeper.pc = "retain"
    /\ Holds(lock, Sweeper)
    /\ nonces_by_account' = Retain(nonces_by_account, sweeper.nonces_for_accounts)
    /\ tx_cache' =
         [h \in {h \in DOMAIN tx_cache :
                   tx_cache[h].nonce \in
                     GetNoncesIn(nonces_by_account', tx_cache[h].initiator_account)}
            |-> tx_cache[h]]
    /\ lock' = Release(lock, Sweeper)
    /\ sweeper' = [sweeper EXCEPT !.pc = "sleep"]
    /\ UNCHANGED <<handlers, stop>>

\* inner.nonces_by_account.retain(..); drop(inner)
RetainStep ==
    /\ sweeper.pc = "retain"
    /\ Holds(lock, Sweeper)
    /\ nonces_by_account' = Retain(nonces_by_account, sweeper.nonces_for_accounts)
    /\ lock' = Release(lock, Sweeper)
    /\ sweeper' = [sweeper EXCEPT !.pc = "sleep"]
    /\ UNCHANGED <<tx_cache, handlers, stop>>

\* tokio::time::sleep(UPDATE_INTERVAL).await; the iteration's locals end
Sleep ==
    /\ sweeper.pc = "sleep"
    /\ sweeper' = SweeperStart
    /\ UNCHANGED <<tx_cache, nonces_by_account, lock, handlers, stop>>

\* The owner of the watch channel signals the stop.
SetStop ==
    /\ ~stop
    /\ stop' = TRUE
    /\ UNCHANGED <<tx_cache, nonces_by_account, lock, handlers, sweeper>>

----------------------------------------------------------------------------
(* Steps of the handlers and of the sweeper, over given input sets *)

\* Cache calls by the handlers in P, with identities from H and current
\* nonces from C.
HandlerNext(P, H, C) ==
    \/ \E p \in P, tx \in TxUniverse(H) : Call(p, "push", tx)
    \/ \E p \in P, h \in H : Call(p, "get_tx", h)
    \/ \E p \in P, a \in Accounts : Call(p, "get_nonces_for_account", a)
    \/ \E p \in P, h \in H : Call(p, "remove_tx", h)
    \/ \E p \in P, a \in Accounts, c \in C : Call(p, "next_nonce", <<a, c>>)
    \/ \E p \in P : Push(p)
    \/ \E p \in P : GetTx(p)
    \/ \E p \in P : GetNoncesForAccount(p)
    \/ \E p \in P : RemoveTx(p)
    \/ \E p \in P : NextNonce(p)
    \/ \E p \in P, tx \in TxUniverse(H), has_input \in BOOLEAN,
          sent \in BOOLEAN : SubmitTx(p, tx, has_input, sent)
    \/ \E p \in P : Return(p)

\* The sweeper, with the store answering stored nonces from W.
SweeperNext(W) ==
    \/ CheckStop
    \/ Snapshot
    \/ \E ok \in BOOLEAN : AccessStorage(ok)
    \/ \E result \in QueryResults(sweeper.addresses, W) :
          GetNoncesForAddresses(result)
    \/ GetNoncesFails
    \/ RetainStep
    \/ Sleep

\* TxProxy::new: an empty cache; nothing running yet.
Init ==
    /\ tx_cache = EmptyMap
    /\ nonces_by_account = EmptyMap
    /\ lock = FreeLock
    /\ handlers = [p \in Handlers |-> Idle]
    /\ sweeper = SweeperStart
    /\ stop = FALSE

----------------------------------------------------------------------------
(* Spec: calls and the sweeper interleave freely *)

Next ==
    \/ HandlerNext(OneCaller, OneHash, Nonces)
    \/ SweeperNext(StoredNonces)
    \/ SetStop

Spec == Init /\ [][Next]_vars

----------------------------------------------------------------------------
(* SpecApi: calls and sweeper passes one at a time, over more identities *)

SweeperQuiet == sweeper.pc \in {"loop", "returned"}
HandlersIdle == \A p \in Handlers : handlers[p].pc = "idle"

NextApi ==
    \/ SweeperQuiet /\ HandlerNext(OneCaller, Hashes, Nonces)
    \/ HandlersIdle /\ SweeperNext(StoredNonces)
    \/ SetStop

SpecApi == Init /\ [][NextApi]_vars

----------------------------------------------------------------------------
(* SpecPush: two handlers pushing concurrently *)

NextPush ==
    \/ \E p \in Handlers, tx \in TxUniverse(Hashes) : Call(p, "push", tx)
    \/ \E p \in Handlers : Push(p)
    \/ \E p \in Handlers : Return(p)

SpecPush == Init /\ [][NextPush]_vars

----------------------------------------------------------------------------
(* SpecNext and SpecTrim: the next-nonce scan and the trim over the whole  *)
(* nonce type, from every cache holding up to MaxSetSize nonces of A       *)

PendingSets == {S \in SUBSET NonceType : Cardinality(S) <= MaxSetSize}

\* Caches that pushes for account A followed by remove_tx leave behind.
InitPending ==
    /\ tx_cache = EmptyMap
    /\ \E S \in PendingSets :
         nonces_by_account = IF S = {} THEN EmptyMap ELSE [a \in {"A"} |-> S]
    /\ lock = FreeLock
    /\ handlers = [p \in Handlers |-> Idle]
    /\ sweeper = SweeperStart
    /\ stop = FALSE

NextNext ==
    \/ \E p \in OneCaller, a \in Accounts, c \in NonceType :
          Call(p, "next_nonce", <<a, c>>)
    \/ \E p \in OneCaller : NextNonce(p)
    \/ \E p \in OneCaller : Return(p)

SpecNext == InitPending /\ [][NextNext]_vars

NextTrim ==
    \/ SweeperNext(NonceType)
    \/ SetStop

SpecTrim == InitPending /\ [][NextTrim]_vars

----------------------------------------------------------------------------
(* SpecFair: two handlers and the sweeper share the lock, under fair      *)
(* scheduling: a handler that has the lock runs its critical section, and  *)
(* the sweeper's next step (the stop check, a granted lock, the store's    *)
(* answer or failure, the trim, the timer) is eventually taken             *)

\* Each account's first transaction.
FirstTxs == {L2Tx("x", a, 0) : a \in Accounts}

NextFair ==
    \/ \E p \in Handlers, tx \in FirstTxs : Call(p, "push", tx)
    \/ \E p \in Handlers, a \in Accounts : Call(p, "get_nonces_for_account", a)
    \/ \E p \in Handlers : Push(p)
    \/ \E p \in Handlers : GetNoncesForAccount(p)
    \/ \E p \in Handlers : Return(p)
    \/ SweeperNext(StoredNonces)
    \/ SetStop

\* The body of a cache call, run once the lock is granted.
HandlerBody(p) ==
    Push(p) \/ GetTx(p) \/ GetNoncesForAccount(p) \/ RemoveTx(p) \/ NextNonce(p)

Fairness ==
    /\ \A p \in Handlers : WF_vars(HandlerBody(p))
    /\ WF_vars(SweeperNext(StoredNonces))

SpecFair == Init /\ [][NextFair]_vars /\ Fairness

----------------------------------------------------------------------------
(* SpecRelease: the sweeper keeps running (no stop, no store failure) and  *)
(* the store's nonce for A is above every nonce pending for A; a handler   *)
(* pushes for A and B                                                      *)

\* The answers in which A's stored nonce exceeds all of A's pending nonces.
ReleasingResults(addresses) ==
    {r \in QueryResults(addresses, StoredNonces) :
        "A" \in addresses =>
            /\ "A" \in DOMAIN r
            /\ \A n \in GetNoncesIn(nonces_by_account, "A") : r["A"] > n}

SweeperRuns ==
    \/ CheckStop
    \/ Snapshot
    \/ AccessStorage(TRUE)
    \/ \E result \in ReleasingResults(sweeper.addresses) :
          GetNoncesForAddresses(result)
    \/ RetainStep
    \/ Sleep

NextRelease ==
    \/ \E p \in OneCaller, tx \in TxUniverse(OneHash) : Call(p, "push", tx)
    \/ \E p \in OneCaller : Push(p)
    \/ \E p \in OneCaller : Return(p)
    \/ SweeperRuns

SpecRelease ==
    /\ Init /\ [][NextRelease]_vars
    /\ \A p \in Handlers : WF_vars(HandlerBody(p))
    /\ WF_vars(SweeperRuns)

----------------------------------------------------------------------------
(* SpecSession: caller h1 saves its transaction and then looks it up, by   *)
(* hash or by account, call after call, while h2 forgets that hash or     *)
(* saves the account's other transactions and the sweeper runs             *)

OwnTx == L2Tx("x", "A", 0)
\* The other transactions of the same account.
OtherTxs == {L2Tx("y", "A", n) : n \in Nonces \ {OwnTx.nonce}}

NextSession ==
    \/ Call("h1", "push", OwnTx)
    \/ Push("h1")
    \/ CallNext("h1", "get_tx", OwnTx.hash)
    \/ CallNext("h1", "get_nonces_for_account", OwnTx.initiator_account)
    \/ GetTx("h1")
    \/ GetNoncesForAccount("h1")
    \/ \E tx \in OtherTxs : Call("h2", "push", tx)
    \/ Call("h2", "remove_tx", OwnTx.hash)
    \/ Push("h2")
    \/ RemoveTx("h2")
    \/ Return("h2")
    \/ SweeperNext(StoredNonces)

SpecSession == Init /\ [][NextSession]_vars

----------------------------------------------------------------------------
(* Steps the claims speak about *)

PushTaken(p) ==
    /\ handlers[p].pc = "await_lock" /\ handlers[p].op = "push"
    /\ handlers'[p].pc = "done"
RemoveTaken(p) ==
    /\ handlers[p].pc = "await_lock" /\ handlers[p].op = "remove_tx"
    /\ handlers'[p].pc = "done"
SubmitTaken(p) ==
    /\ handlers[p].pc = "idle"
    /\ handlers'[p].pc = "done" /\ handlers'[p].op = "submit_tx"
RetainTaken == sweeper.pc = "retain" /\ sweeper'.pc = "sleep"
HasDone(p, op) == handlers[p].pc = "done" /\ handlers[p].op = op

OnlyA(S) == [a \in {"A"} |-> S]

----------------------------------------------------------------------------
(* C1 *)

Contiguous(S, c, r) == \A n \in (c + 1)..r : n \in S
\* The greatest r >= c with every n in c+1..r in S.
HighestContiguous(S, c) ==
    CHOOSE r \in c..NonceMax :
        /\ Contiguous(S, c, r)
        /\ \A r2 \in c..NonceMax : Contiguous(S, c, r2) => r2 <= r

\* C1: next_nonce_by_initiator_account(sender, c) returns the highest
\* contiguous tracked nonce starting from the baseline c: the greatest r >= c
\* such that every n with c < n <= r is pending for the sender; so {5,6,8}
\* with c = 4 gives 6 and {10,11,13} with c = 9 gives 11. (Stated for
\* baselines below the largest nonce, where c + 1 does not overflow.)
NextNonceIsHighestContiguous ==
    \A p \in Handlers :
        (HasDone(p, "next_nonce") /\ handlers[p].arg[2] < NonceMax) =>
            handlers[p].ret =
                Returned(HighestContiguous(
                    GetNoncesIn(nonces_by_account, handlers[p].arg[1]),
                    handlers[p].arg[2]))

----------------------------------------------------------------------------
(* C2 *)

\* C2: the trim removes only a prefix: for every tracked sender with set S
\* and watermark w at the trim, the set afterwards is exactly
\* {n \in S : n >= w}, the sender being dropped when that is empty, and no
\* sender appears; {3,4,7,9} with w = 6 becomes {7,9}, and with w = 10 the
\* sender is no longer tracked.
TrimRemovesOnlyPrefix ==
    [][RetainTaken =>
        /\ \A a \in DOMAIN nonces_by_account :
             LET w == StoredNonce(sweeper.nonces_for_accounts, a)
                 kept == {n \in nonces_by_account[a] : ~(n < w)}
             IN IF kept = {}
                THEN a \notin DOMAIN nonces_by_account'
                ELSE /\ a \in DOMAIN nonces_by_account'
                     /\ nonces_by_account'[a] = kept
        /\ DOMAIN nonces_by_account' \subseteq DOMAIN nonces_by_account
        /\ (/\ nonces_by_account = OnlyA({3, 4, 7, 9})
            /\ StoredNonce(sweeper.nonces_for_accounts, "A") = 6)
              => nonces_by_account' = OnlyA({7, 9})
        /\ (/\ nonces_by_account = OnlyA({3, 4, 7, 9})
            /\ StoredNonce(sweeper.nonces_for_accounts, "A") = 10)
              => "A" \notin DOMAIN nonces_by_account'
      ]_vars

\* A pass has trimmed with watermark 6 and left exactly {7,9} for A.
TrimmedAtSix ==
    /\ sweeper.pc = "sleep"
    /\ StoredNonce(sweeper.nonces_for_accounts, "A") = 6
    /\ "A" \in sweeper.addresses
    /\ nonces_by_account = OnlyA({7, 9})

----------------------------------------------------------------------------
(* C3 *)

\* C3 as stated: after a pass, nonces at or below the sender's watermark are
\* no longer tracked; {10,11,13} with the store reporting 11 leaves {13}.
TrimDropsUpToWatermark ==
    [][RetainTaken =>
        /\ \A a \in DOMAIN nonces_by_account' \cap DOMAIN sweeper.nonces_for_accounts :
             \A n \in nonces_by_account'[a] :
                 n > sweeper.nonces_for_accounts[a]
        /\ (/\ nonces_by_account = OnlyA({10, 11, 13})
            /\ StoredNonce(sweeper.nonces_for_accounts, "A") = 11)
              => nonces_by_account' = OnlyA({13})
      ]_vars

\* C3 amended: after a pass, nonces strictly below the sender's watermark
\* are no longer tracked and the watermark itself, if pending, still is;
\* {10,11,13} with the store reporting 11 leaves {11,13}.
TrimDropsBelowWatermark ==
    [][RetainTaken =>
        /\ \A a \in DOMAIN nonces_by_account' :
             \A n \in nonces_by_account'[a] :
                 n >= StoredNonce(sweeper.nonces_for_accounts, a)
        /\ \A a \in DOMAIN nonces_by_account :
             StoredNonce(sweeper.nonces_for_accounts, a) \in nonces_by_account[a]
                => /\ a \in DOMAIN nonces_by_account'
                   /\ StoredNonce(sweeper.nonces_for_accounts, a)
                          \in nonces_by_account'[a]
        /\ (/\ nonces_by_account = OnlyA({10, 11, 13})
            /\ StoredNonce(sweeper.nonces_for_accounts, "A") = 11)
              => nonces_by_account' = OnlyA({11, 13})
      ]_vars

\* A pass has trimmed with watermark 11 and A's pending set is {11,13}.
TrimmedAtEleven ==
    /\ sweeper.pc = "sleep"
    /\ "A" \in DOMAIN sweeper.nonces_for_accounts
    /\ sweeper.nonces_for_accounts["A"] = 11
    /\ nonces_by_account = OnlyA({11, 13})

----------------------------------------------------------------------------
(* C4 *)

\* C4: remove_tx changes only tx_cache: the removed identity is no longer
\* found, every other identity and every sender's nonce set is as before;
\* so the nonce of a transaction that was inserted and then removed is
\* still in its sender's set.
RemovalAsymmetry ==
    [][\A p \in Handlers : RemoveTaken(p) =>
        LET h == handlers[p].arg IN
        /\ nonces_by_account' = nonces_by_account
        /\ GetTxIn(tx_cache', h) = NoneOpt
        /\ \A g \in Hashes \ {h} : GetTxIn(tx_cache', g) = GetTxIn(tx_cache, g)
        /\ \A a \in Accounts :
             GetNoncesIn(nonces_by_account', a) = GetNoncesIn(nonces_by_account, a)
        /\ h \in DOMAIN tx_cache =>
             (tx_cache[h].nonce \in
                  GetNoncesIn(nonces_by_account, tx_cache[h].initiator_account)
              => tx_cache[h].nonce \in
                  GetNoncesIn(nonces_by_account', tx_cache[h].initiator_account))
      ]_vars

\* A removal has completed, no transaction is cached any more, and the
\* nonce of the transaction that was inserted is still pending.
RemovedButNonceKept ==
    /\ \E p \in Handlers : HasDone(p, "remove_tx") /\ handlers[p].arg = "x"
    /\ tx_cache = EmptyMap
    /\ nonces_by_account = OnlyA({1})

----------------------------------------------------------------------------
(* C5 *)

\* C5: after push(T), get_tx(T.hash) returns a transaction equal to T and
\* get_nonces_for_account(T.initiator_account) contains T.nonce.
InsertThenLookup ==
    [][\A p \in Handlers : PushTaken(p) =>
        LET T == handlers[p].arg IN
        /\ GetTxIn(tx_cache', T.hash) = Some(T)
        /\ T.nonce \in GetNoncesIn(nonces_by_account', T.initiator_account)
      ]_vars

\* A push has completed over an identity cached with another payload, and
\* both lookups find the pushed transaction.
PushedAndFound ==
    \E p \in Handlers :
        /\ HasDone(p, "push")
        /\ handlers[p].arg = L2Tx("x", "B", 1)
        /\ GetTxIn(tx_cache, "x") = Some(L2Tx("x", "B", 1))
        /\ 1 \in GetNoncesIn(nonces_by_account, "B")
        /\ 0 \in GetNoncesIn(nonces_by_account, "A")
        /\ DOMAIN tx_cache = {"x"}

----------------------------------------------------------------------------
(* C6 *)

\* C6: no empty set persists in nonces_by_account: in every reachable
\* state every tracked sender has a non-empty set, so a sender whose set a
\* trim empties is dropped by that trim.
NoEmptyPendingSets ==
    \A a \in DOMAIN nonces_by_account : nonces_by_account[a] # {}

\* A trim has dropped a sender that was tracked when the pass began.
SenderDroppedByTrim ==
    /\ sweeper.pc = "sleep"
    /\ \E a \in sweeper.addresses :
         /\ a \notin DOMAIN nonces_by_account
         /\ StoredNonce(sweeper.nonces_for_accounts, a) > 0

----------------------------------------------------------------------------
(* C7 *)

AtStore == sweeper.pc \in {"access_storage", "get_nonces"}
SweeperQueued ==
    \E i \in 1..Len(lock.waiters) : lock.waiters[i][1] = Sweeper

\* C7: while the sweeper acquires the connection or waits for the query it
\* neither holds nor awaits the cache lock: a handler waiting then waits
\* for another handler only, and a call issued then by an idle handler gets
\* the lock at once unless another handler has it.
LockNotHeldAcrossQuery ==
    AtStore =>
        /\ ~Holds(lock, Sweeper)
        /\ ~SweeperQueued
        /\ \A p \in Handlers :
             /\ handlers[p].pc = "await_lock" =>
                  \/ Holds(lock, p)
                  \/ \E q \in Handlers \ {p} : Holds(lock, q)
             /\ handlers[p].pc = "idle" =>
                  \A mode \in {"read", "write"} :
                      \/ Holds(Acquire(lock, p, mode), p)
                      \/ \E q \in Handlers \ {p} : Holds(lock, q)

\* A push of a sender absent from the snapshot has completed while the
\* query is in flight.
PushedDuringQuery ==
    /\ sweeper.pc = "get_nonces"
    /\ \E p \in Handlers :
         /\ HasDone(p, "push")
         /\ handlers[p].arg.initiator_account \notin sweeper.addresses
         /\ handlers[p].arg.initiator_account \in DOMAIN nonces_by_account

----------------------------------------------------------------------------
(* C8 *)

\* C8: a failure of the store (no connection, or a failed query) ends
\* run_updates with an error: that step changes neither map and leaves the
\* sweeper without lock or connection, and a sweeper that has returned
\* takes no further step, so the pass performs no trim.
StoreFailureAborts ==
    [][/\ (AccessStorage(FALSE) \/ GetNoncesFails) =>
            /\ sweeper'.pc = "returned"
            /\ sweeper'.result = "Err"
            /\ ~sweeper'.storage
            /\ ~Holds(lock', Sweeper)
            /\ tx_cache' = tx_cache
            /\ nonces_by_account' = nonces_by_account
       /\ sweeper.pc = "returned" => sweeper' = sweeper
      ]_vars

\* The sweeper has returned an error while senders are still tracked.
ReturnedErrUntrimmed ==
    /\ sweeper.pc = "returned"
    /\ sweeper.result = "Err"
    /\ nonces_by_account # EmptyMap
    /\ ~Holds(lock, Sweeper)

----------------------------------------------------------------------------
(* C9 *)

\* C9: submit_tx never modifies the cache: whether the call is accepted,
\* fails or panics, both maps and the lock are as before, so a failed
\* submit leaves no entry for the transaction.
SubmitLeavesCache ==
    [][\A p \in Handlers : SubmitTaken(p) =>
        /\ tx_cache' = tx_cache
        /\ nonces_by_account' = nonces_by_account
        /\ lock' = lock
      ]_vars

\* A submit has failed and the cache knows nothing of the transaction.
SubmitFailedNothingCached ==
    \E p \in Handlers :
        /\ HasDone(p, "submit_tx")
        /\ handlers[p].ret = Returned(<<"Err">>)
        /\ GetTxIn(tx_cache, handlers[p].arg.hash) = NoneOpt
        /\ handlers[p].arg.nonce
              \notin GetNoncesIn(nonces_by_account, handlers[p].arg.initiator_account)

----------------------------------------------------------------------------
(* C10 *)

\* C10: push is idempotent: pushing T again onto the state a push of T
\* left gives the same tx_cache and the same nonces_by_account, with the
\* same number of identities and of nonces for T's sender; and a push of a
\* transaction that is already cached and pending changes neither map.
IdempotentInsert ==
    [][\A p \in Handlers : PushTaken(p) =>
        LET T == handlers[p].arg
            a == handlers[p].arg.initiator_account
        IN
        /\ PushTx(tx_cache', T) = tx_cache'
        /\ PushNonces(nonces_by_account', T) = nonces_by_account'
        /\ Cardinality(DOMAIN PushTx(tx_cache', T)) = Cardinality(DOMAIN tx_cache')
        /\ Cardinality(GetNoncesIn(PushNonces(nonces_by_account', T), a))
              = Cardinality(GetNoncesIn(nonces_by_account', a))
        /\ (GetTxIn(tx_cache, T.hash) = Some(T)
              /\ T.nonce \in GetNoncesIn(nonces_by_account, a))
             => /\ tx_cache' = tx_cache
                /\ nonces_by_account' = nonces_by_account
      ]_vars

\* Both handlers have completed a push of the same transaction, and the
\* cache holds one identity and one nonce.
PushedTwice ==
    /\ \A p \in Handlers :
         HasDone(p, "push") /\ handlers[p].arg = L2Tx("y", "A", 0)
    /\ tx_cache = [h \in {"y"} |-> L2Tx("y", "A", 0)]
    /\ nonces_by_account = OnlyA({0})

----------------------------------------------------------------------------
(* C11 *)

\* C11: every nonce in nonces_by_account[addr] was put there by an earlier
\* push of a transaction with initiator addr and that nonce: the maps start
\* empty, and a step that makes a nonce pending for an address, or an
\* address tracked, is the push of a transaction with that address and
\* nonce; no other step, the trim included, introduces one.
PendingNoncesWerePushed ==
    /\ nonces_by_account = EmptyMap
    /\ [][\A a \in Accounts :
            \A n \in GetNoncesIn(nonces_by_account', a)
                       \ GetNoncesIn(nonces_by_account, a) :
                \E p \in Handlers :
                    /\ PushTaken(p)
                    /\ handlers[p].arg.initiator_account = a
                    /\ handlers[p].arg.nonce = n
       ]_vars

\* A trim has run with a stored nonce of 1 for A and has left A's pushed
\* nonce 1 pending.
TrimKeptPushedNonce ==
    /\ sweeper.pc = "sleep"
    /\ "A" \in sweeper.addresses
    /\ StoredNonce(sweeper.nonces_for_accounts, "A") = 1
    /\ nonces_by_account = OnlyA({1})
    /\ GetTxIn(tx_cache, "x") = Some(L2Tx("x", "A", 1))

----------------------------------------------------------------------------
(* C12 *)

\* C12: next_nonce_by_initiator_account for a sender with no pending nonces
\* (untracked, or tracked with an empty set) returns the baseline it was
\* given, unchanged, for every baseline value; an empty set and baseline 4
\* give 4.
NoPendingKeepsBaseline ==
    \A p \in Handlers :
        (HasDone(p, "next_nonce")
           /\ GetNoncesIn(nonces_by_account, handlers[p].arg[1]) = {}) =>
            handlers[p].ret = Returned(handlers[p].arg[2])

----------------------------------------------------------------------------
(* C13 *)

OwnTxCached(cache) == GetTxIn(cache, OwnTx.hash) = Some(OwnTx)
OwnNoncePending(nba) ==
    OwnTx.nonce \in GetNoncesIn(nba, OwnTx.initiator_account)

\* C13: a caller that has completed push(T) and then looks T up, by
\* get_tx(T.hash) or by get_nonces_for_account(T.initiator_account), sees
\* its own push, whatever other handlers and the sweeper do meanwhile.
OwnInsertObserved ==
    /\ HasDone("h1", "get_tx") =>
          handlers["h1"].ret = Returned(Some(OwnTx))
    /\ HasDone("h1", "get_nonces_for_account") =>
          OwnTx.nonce \in handlers["h1"].ret[2]

\* C13, amended: the caller's push leaves T cached and its nonce pending;
\* T stops being cached under its hash only by another handler's
\* remove_tx of that hash, and its nonce stops being pending only by a trim with a stored nonce
\* above it; a lookup by the caller sees T, resp. T's nonce, whenever that
\* has not happened since (T is still cached, resp. its nonce pending, when
\* the lookup reads).
OwnInsertObservedUnlessTakenOut ==
    [][/\ PushTaken("h1") =>
            OwnTxCached(tx_cache') /\ OwnNoncePending(nonces_by_account')
       /\ (OwnTxCached(tx_cache) /\ ~OwnTxCached(tx_cache')) =>
            RemoveTaken("h2") /\ handlers["h2"].arg = OwnTx.hash
       /\ (OwnNoncePending(nonces_by_account)
             /\ ~OwnNoncePending(nonces_by_account')) =>
            /\ RetainTaken
            /\ StoredNonce(sweeper.nonces_for_accounts,
                           OwnTx.initiator_account) > OwnTx.nonce
       /\ (Running("h1", "get_tx") /\ handlers'["h1"].pc = "done"
             /\ OwnTxCached(tx_cache)) =>
            handlers'["h1"].ret = Returned(Some(OwnTx))
       /\ (Running("h1", "get_nonces_for_account")
             /\ handlers'["h1"].pc = "done"
             /\ OwnNoncePending(nonces_by_account)) =>
            OwnTx.nonce \in handlers'["h1"].ret[2]
      ]_vars

\* The caller has looked its account up after its push and sees its nonce
\* next to the one h2 pushed, a pass of the sweeper with stored nonce 0
\* for the account having run meanwhile.
OwnNonceSeenAfterTrim ==
    /\ HasDone("h1", "get_nonces_for_account")
    /\ handlers["h1"].ret = Returned({0, 1})
    /\ sweeper.pc = "sleep"
    /\ "A" \in DOMAIN sweeper.nonces_for_accounts
    /\ StoredNonce(sweeper.nonces_for_accounts, "A") = 0
    /\ GetTxIn(tx_cache, "y") = Some(L2Tx("y", "A", 1))

----------------------------------------------------------------------------
(* C14 *)

MidPass == sweeper.pc \in {"snapshot", "access_storage", "get_nonces", "retain"}

\* C14: the sweeper does not cancel a pass: setting stop changes nothing of
\* the sweeper, the lock or the cache; a pass that is past the stop check
\* takes its steps in order whether stop is set or not (snapshot, connection,
\* query, trim, sleep, unless the store fails), and the top of the loop is
\* reached again only through the trim and the sleep; the loop returns Ok
\* only from the top of the loop, with stop set, neither holding nor
\* awaiting the lock and never between the snapshot and the trim.
PassRunsToCompletion ==
    [][/\ stop' # stop =>
            UNCHANGED <<sweeper, lock, tx_cache, nonces_by_account>>
       /\ (sweeper.pc # "returned" /\ sweeper'.pc = "returned"
             /\ sweeper'.result = "Ok") =>
            /\ sweeper.pc = "loop" /\ stop
            /\ ~MidPass
            /\ ~Holds(lock, Sweeper) /\ ~SweeperQueued
            /\ ~Holds(lock', Sweeper)
       /\ (MidPass /\ sweeper' # sweeper) =>
            \/ sweeper.pc = "snapshot" /\ sweeper'.pc = "access_storage"
            \/ sweeper.pc = "access_storage" /\ sweeper'.pc = "get_nonces"
            \/ sweeper.pc = "get_nonces" /\ sweeper'.pc = "retain"
            \/ /\ RetainTaken
               /\ nonces_by_account' =
                     Retain(nonces_by_account, sweeper.nonces_for_accounts)
            \/ /\ sweeper.pc \in {"access_storage", "get_nonces"}
               /\ sweeper' = SweeperReturned("Err")
       /\ (sweeper.pc # "loop" /\ sweeper'.pc = "loop") => sweeper.pc = "sleep"
       /\ (sweeper.pc # "sleep" /\ sweeper'.pc = "sleep") => RetainTaken
      ]_vars

\* Stop is set and the pass that was under way has trimmed A away; the
\* loop has not returned.
StoppedPassHasTrimmed ==
    /\ stop
    /\ sweeper.pc = "sleep"
    /\ "A" \in sweeper.addresses
    /\ StoredNonce(sweeper.nonces_for_accounts, "A") = 1
    /\ "A" \notin DOMAIN nonces_by_account

----------------------------------------------------------------------------
(* C15 *)

\* C15: once stop is set (it is never cleared) the sweeper, fairly
\* scheduled, eventually terminates; when it sees stop at the top of an
\* iteration it returns Ok, not an error; and once it has returned it
\* starts no further pass.
StopEventuallyHonored ==
    /\ stop ~> (sweeper.pc = "returned")
    /\ [][/\ stop => stop'
          /\ (sweeper.pc = "loop" /\ stop /\ sweeper' # sweeper) =>
                sweeper' = SweeperReturned("Ok")
          /\ sweeper.pc = "returned" => sweeper' = sweeper
         ]_vars

\* The sweeper has seen stop at the top of an iteration and returned Ok,
\* after a pass that trimmed A away.
StoppedCleanly ==
    /\ stop
    /\ sweeper = SweeperReturned("Ok")
    /\ "A" \notin DOMAIN nonces_by_account
    /\ GetTxIn(tx_cache, "x") = Some(L2Tx("x", "A", 0))

----------------------------------------------------------------------------
(* C16 *)

SweeperAwaitsLock ==
    sweeper.pc \in {"snapshot", "retain"} /\ ~Holds(lock, Sweeper)

\* C16: handlers and the sweeper sharing the lock and the store connection
\* cannot deadlock: every cache call that has started eventually completes,
\* the sweeper waiting for the lock eventually gets it, and the lock and
\* the connection are never held or awaited together: while the sweeper
\* acquires or has the connection it neither holds nor awaits the lock, and
\* no handler ever has the connection.
NoDeadlock ==
    /\ \A p \in Handlers :
          (handlers[p].pc = "await_lock") ~> (handlers[p].pc = "done")
    /\ SweeperAwaitsLock ~> Holds(lock, Sweeper)
    /\ [](sweeper.storage => sweeper.pc = "get_nonces")
    /\ [](AtStore => ~Holds(lock, Sweeper) /\ ~SweeperQueued)

\* The sweeper has the write lock for its trim while both handlers are
\* queued behind it, a writer and a reader.
AllContending ==
    /\ sweeper.pc = "retain"
    /\ Holds(lock, Sweeper)
    /\ Len(lock.waiters) = 2
    /\ handlers["h1"].op = "push"
    /\ handlers["h2"].op = "get_nonces_for_account"

----------------------------------------------------------------------------
(* C17 *)

PushTakenFor(a) ==
    \E p \in Handlers :
        PushTaken(p) /\ handlers[p].arg.initiator_account = a

\* C17: while the sweeper keeps running and the store's nonce for A stays
\* above every nonce pending for A, if A gets no further pushes then
\* eventually A is no longer a key of nonces_by_account, nor in the
\* addresses of later snapshots: either pushes for A go on forever, or
\* from some point on A is absent from both.
TrackingEventuallyReleased ==
    \/ []<><<PushTakenFor("A")>>_vars
    \/ <>[]("A" \notin DOMAIN nonces_by_account
              /\ "A" \notin sweeper.addresses)

\* A pass has dropped A, whose nonces 0 and 1 were below the stored nonce;
\* B is still tracked.
SenderReleased ==
    /\ sweeper.pc = "sleep"
    /\ "A" \in sweeper.addresses
    /\ StoredNonce(sweeper.nonces_for_accounts, "A") > 1
    /\ DOMAIN nonces_by_account = {"B"}
    /\ HasDone("h1", "push") /\ handlers["h1"].arg = L2Tx("x", "A", 1)

----------------------------------------------------------------------------
(* C18 *)

\* C18: an address that became tracked after the pass's snapshot was taken
\* and before its trim is not among the addresses asked for, so the answer
\* has no entry for it; the trim takes its stored nonce to be 0 and keeps
\* all of its pending nonces, whatever its real stored nonce is.
LateSenderKeptByTrim ==
    [][RetainTaken =>
        \A a \in DOMAIN nonces_by_account \ sweeper.addresses :
            /\ a \notin DOMAIN sweeper.nonces_for_accounts
            /\ StoredNonce(sweeper.nonces_for_accounts, a) = 0
            /\ a \in DOMAIN nonces_by_account'
            /\ nonces_by_account'[a] = nonces_by_account[a]
      ]_vars

\* The trim has run; A was in the snapshot and went away, while B, pushed
\* after the snapshot, keeps its nonce 0.
LateSenderSurvived ==
    /\ sweeper.pc = "sleep"
    /\ sweeper.addresses = {"A"}
    /\ StoredNonce(sweeper.nonces_for_accounts, "A") = 2
    /\ nonces_by_account = [a \in {"B"} |-> {0}]
    /\ HasDone("h1", "push") /\ handlers["h1"].arg = L2Tx("x", "B", 0)

----------------------------------------------------------------------------
(* C19 *)

\* C19: a pass of the sweeper never changes tx_cache: get_tx answers for
\* every hash after the trim what it answered before it. A hash stops being
\* cached only in a remove_tx step for that hash, and the transaction
\* cached under a hash changes, or appears, only in a push step of a
\* transaction with that hash, which is then the one cached.
TrimLeavesTxCache ==
    [][/\ sweeper' # sweeper =>
            \A h \in Hashes : GetTxIn(tx_cache', h) = GetTxIn(tx_cache, h)
       /\ \A h \in Hashes :
            GetTxIn(tx_cache', h) # GetTxIn(tx_cache, h) =>
                IF GetTxIn(tx_cache', h) = NoneOpt
                THEN \E p \in Handlers :
                        RemoveTaken(p) /\ handlers[p].arg = h
                ELSE \E p \in Handlers :
                        /\ PushTaken(p)
                        /\ handlers[p].arg.hash = h
                        /\ GetTxIn(tx_cache', h) = Some(handlers[p].arg)
      ]_vars

\* The trim has dropped A's nonce 0, and the transaction pushed with it is
\* still cached under its hash.
TrimmedButStillCached ==
    /\ sweeper.pc = "sleep"
    /\ "A" \in sweeper.addresses
    /\ StoredNonce(sweeper.nonces_for_accounts, "A") = 1
    /\ "A" \notin DOMAIN nonces_by_account
    /\ GetTxIn(tx_cache, "x") = Some(L2Tx("x", "A", 0))

----------------------------------------------------------------------------
(* C20 *)

\* C20: next_nonce_by_initiator_account never advances past a gap and never
\* goes below the baseline: with S the sender's pending set as the call
\* reads it and c the baseline, the result r has r >= c and every n with
\* c < n <= r is in S.
NextNonceBounded ==
    \A p \in Handlers :
        HasDone(p, "next_nonce") =>
            /\ handlers[p].ret[1] = "ret"
            /\ handlers[p].ret[2] >= handlers[p].arg[2]
            /\ Contiguous(GetNoncesIn(nonces_by_account, handlers[p].arg[1]),
                          handlers[p].arg[2], handlers[p].ret[2])

====
